---- MODULE Spec2Model ----
(***************************************************************************)
(* Model of eng/_util/cmd/sign/sign.go: the archive classifier, the entry  *)
(* selector, the extraction and repack stages over a small file system,    *)
(* the notarization and signature stages, and run().                       *)
(*                                                                         *)
(* Names and paths are sequences of one-character strings, so that glob    *)
(* matching, suffix tests and path joins are computed character by         *)
(* character as the Go library does.                                       *)
(***************************************************************************)
EXTENDS Integers, Sequences, FiniteSets, TLC

VARIABLES
    created,      \* what the last newArchive(p) call returned
    a,            \* the archive value the stage methods are called on
    src,          \* the entries of the archive file at a.path
    dirs,         \* directories that exist
    files,        \* regular files: path -> bytes
    outs,         \* archive files written by repack: path -> [entries, sealed]
    results,      \* the []*fileToSign the last stage method returned
    ret,          \* the error the last stage method returned
    lastOp,       \* the last stage method called
    io,           \* streams opened / closed by the last repackSignedEntries
    wf,           \* streams opened / closed by the last writeFile call
    injected,     \* whether an I/O fault was injected into the last stage call
    pc,           \* position of the caller that drives the passes
    entries,      \* run: the directory entries it ranges over
    globOk,       \* run: whether *filesGlob is a well-formed pattern
    runPc,        \* run: position in run()
    idx,          \* run: loop index
    zipFiles, tarGzFiles, macOSFiles,   \* run: the three lists it builds
    history,      \* run: per discovered path, the stage methods run() called
    leaked,       \* run: zip readers opened and dropped
    runRet        \* run: what run() returned

classifyVars == <<created>>
archiveVars == <<a, src, dirs, files, outs, results, ret, lastOp, io, wf,
                 injected, pc>>
runVars == <<entries, globOk, runPc, idx, zipFiles, tarGzFiles, macOSFiles,
             history, leaked, runRet>>
vars == <<created, a, src, dirs, files, outs, results, ret, lastOp, io, wf,
          injected, pc,
          entries, globOk, runPc, idx, zipFiles, tarGzFiles, macOSFiles,
          history, leaked, runRet>>

(***************************************************************************)
(* Bounds.                                                                 *)
(***************************************************************************)
MaxEntries == 2        \* entries in one archive
MaxCloseFaults == 1    \* Close calls that fail in one stage call
MaxDirEntries == 2     \* directory entries run() ranges over

(***************************************************************************)
(* Text.                                                                   *)
(***************************************************************************)
Sep == "/"

PatGoZip == <<"g", "o", "*", ".", "z", "i", "p">>
PatGoTarGz == <<"g", "o", "*", ".", "t", "a", "r", ".", "g", "z">>
PatGoDarwinTarGz == <<"g", "o", "*", "d", "a", "r", "w", "i", "n", "*", ".", "t", "a", "r", ".", "g", "z">>
PatGoBin == <<"g", "o", "/", "b", "i", "n", "/", "*">>
PatPkgTool == <<"p", "k", "g", "/", "t", "o", "o", "l", "/", "*", "/", "*">>
SufExe == <<".", "e", "x", "e">>
SufExtracted == <<".", "e", "x", "t", "r", "a", "c", "t", "e", "d">>
SufWithSignedContent == <<".", "w", "i", "t", "h", "S", "i", "g", "n", "e", "d", "C", "o", "n", "t", "e", "n", "t">>
Darwin == <<"d", "a", "r", "w", "i", "n">>

\* strings.HasSuffix
HasSuffix(s, suf) ==
    /\ Len(s) >= Len(suf)
    /\ SubSeq(s, Len(s) - Len(suf) + 1, Len(s)) = suf

\* index of the last separator of p, 0 when there is none
LastSep(p) ==
    IF \E i \in 1..Len(p) : p[i] = Sep
    THEN CHOOSE i \in 1..Len(p) : p[i] = Sep /\ \A j \in (i+1)..Len(p) : p[j] # Sep
    ELSE 0

\* filepath.Base, for the cleaned, non-empty paths of this model
Base(p) == SubSeq(p, LastSep(p) + 1, Len(p))

\* the directory a file lives in; <<>> is the working directory
Parent(p) == IF LastSep(p) = 0 THEN <<>> ELSE SubSeq(p, 1, LastSep(p) - 1)

\* filepath.Join of two elements: empty elements are dropped
Join(x, y) ==
    IF x = <<>> THEN y
    ELSE IF y = <<>> THEN x
    ELSE x \o <<Sep>> \o y

\* a directory and every directory above it: what os.MkdirAll leaves in place
Ancestors(d) ==
    {SubSeq(d, 1, i - 1) : i \in {j \in 1..Len(d) : d[j] = Sep}} \cup {d, <<>>}

(***************************************************************************)
(* filepath.Match on patterns built of literals, * and ?: * and ? never    *)
(* match the separator.                                                    *)
(***************************************************************************)
RECURSIVE Match(_, _)
Match(pattern, nm) ==
    IF pattern = <<>> THEN nm = <<>>
    ELSE IF Head(pattern) = "*"
        THEN \/ Match(Tail(pattern), nm)
             \/ /\ nm # <<>>
                /\ Head(nm) # Sep
                /\ Match(pattern, Tail(nm))
    ELSE IF Head(pattern) = "?"
        THEN /\ nm # <<>>
             /\ Head(nm) # Sep
             /\ Match(Tail(pattern), Tail(nm))
    ELSE /\ nm # <<>>
         /\ Head(nm) = Head(pattern)
         /\ Match(Tail(pattern), Tail(nm))

matchOrPanic(pattern, nm) == Match(pattern, nm)

(***************************************************************************)
(* type archive, newArchive                                                *)
(***************************************************************************)
zipArchive == 0
tarGzArchive == 1

NoArchive == [path |-> <<>>, archiveType |-> zipArchive, macOS |-> FALSE]

\* newArchive(p): the pattern and the name are passed to matchOrPanic in this
\* order, and p is the whole path.
newArchive(p) ==
    IF matchOrPanic(p, PatGoZip)
    THEN [ok |-> TRUE,
          archive |-> [path |-> p, archiveType |-> zipArchive,
                       macOS |-> matchOrPanic(PatGoDarwinTarGz, p)]]
    ELSE IF matchOrPanic(p, PatGoTarGz)
    THEN [ok |-> TRUE,
          archive |-> [path |-> p, archiveType |-> tarGzArchive,
                       macOS |-> matchOrPanic(PatGoDarwinTarGz, p)]]
    ELSE [ok |-> FALSE, archive |-> NoArchive]

archiveName(ar) == Base(ar.path)

entryExtractDir(ar) == ar.path \o SufExtracted

(***************************************************************************)
(* The paths newArchive is applied to.                                     *)
(***************************************************************************)
PathDirs == {<<>>, <<"t", "/">>, <<"*", "/">>}
PathStems == {<<"g", "o">>, <<"G", "o">>, <<"x", "g", "o">>}
PathMids == {<<>>, <<"1">>, <<"*">>, Darwin, <<"1", ".">> \o Darwin,
             <<"d", "a", "r">>, <<"1", "/">>}
PathExts == {<<".", "z", "i", "p">>, <<".", "t", "a", "r", ".", "g", "z">>,
             <<".", "t", "a", "r">>, <<".", "z", "i", "p", "x">>,
             <<".", "t", "g", "z">>}
Paths == {d \o s \o m \o e : d \in PathDirs, s \in PathStems,
                             m \in PathMids, e \in PathExts}

NotCalled == [called |-> FALSE, path |-> <<>>, ok |-> FALSE, archive |-> NoArchive]

(***************************************************************************)
(* Entry selector.  A result is <<>> (nil) or <<info>>.                    *)
(***************************************************************************)
\* mutant: the zip branch selects every entry, whatever its suffix
entrySignInfo_AnySuffix(ar, n) ==
    IF ar.archiveType = zipArchive
    THEN << [archivePath |-> ar.path,
             fullPath |-> Join(entryExtractDir(ar), n),
             authenticode |-> "Microsoft400"] >>
    ELSE IF ar.macOS /\ (matchOrPanic(PatGoBin, n) \/ matchOrPanic(PatPkgTool, n))
    THEN << [archivePath |-> ar.path,
             fullPath |-> Join(entryExtractDir(ar), n),
             authenticode |-> "MacDeveloperHarden"] >>
    ELSE <<>>

entrySignInfo(ar, n) ==
    IF ar.archiveType = zipArchive
    THEN IF HasSuffix(n, SufExe)
         THEN << [archivePath |-> ar.path,
                  fullPath |-> Join(entryExtractDir(ar), n),
                  authenticode |-> "Microsoft400"] >>
         ELSE <<>>
    ELSE IF ar.macOS
    THEN IF matchOrPanic(PatGoBin, n) \/ matchOrPanic(PatPkgTool, n)
         THEN << [archivePath |-> ar.path,
                  fullPath |-> Join(entryExtractDir(ar), n),
                  authenticode |-> "MacDeveloperHarden"] >>
         ELSE <<>>
    ELSE <<>>

(***************************************************************************)
(* Bytes, errors, streams and injected I/O faults.                         *)
(***************************************************************************)
Orig(i) == <<"orig", i>>            \* the bytes of entry i of the archive
Signed(b) == <<"signed">> \o b      \* what the signing service puts in place of b
Trunc(b) == <<"trunc">> \o b        \* a proper prefix of b: a copy that failed
Empty == <<>>

Err(kind, h, i) == [kind |-> kind, h |-> h, i |-> i, wrapped |-> FALSE]
NoErr == Err("nil", "", 0)
\* fmt.Errorf("failed to extract file from %q: %v", a.path, err)
Wrap(e) == [e EXCEPT !.wrapped = TRUE]

H(h, i) == [h |-> h, i |-> i]
CloseErr(hd) == Err("close", hd.h, hd.i)

\* A plan names the one operation that fails (I/O errors abort the walk, so
\* at most one happens per call) and the Close calls that fail.
NoAbort == [at |-> "none", i |-> 0]
NoFaults == [abort |-> NoAbort, closeFail |-> {}]
At(plan, kind, i) == plan.abort = [at |-> kind, i |-> i]
Fails(plan, hd) == hd \in plan.closeFail

Plans(globalKinds, entryKinds, n, handles) ==
    {[abort |-> ab, closeFail |-> cf] :
        ab \in {NoAbort}
               \cup {[at |-> k, i |-> 0] : k \in globalKinds}
               \cup {[at |-> k, i |-> j] : k \in entryKinds, j \in 1..n},
        cf \in {s \in SUBSET handles : Cardinality(s) <= MaxCloseFaults}}

\* the error a sequence of steps reports when the first error wins
FirstErr(errs) ==
    IF \E k \in 1..Len(errs) : errs[k] # NoErr
    THEN errs[CHOOSE k \in 1..Len(errs) :
                  errs[k] # NoErr /\ \A j \in 1..(k-1) : errs[j] = NoErr]
    ELSE NoErr

\* what a call did with its streams
Log(opened, closed, nonClose, closeErrs) ==
    [opened |-> opened, closed |-> closed,
     nonClose |-> nonClose, closeErrs |-> closeErrs]
IdleLog == Log({}, {}, <<>>, <<>>)
IdleWf == [called |-> FALSE, log |-> IdleLog, err |-> NoErr]

Put(f, k, v) == [x \in (DOMAIN f) \cup {k} |-> IF x = k THEN v ELSE f[x]]

\* os.Create fails when the parent directory is missing or the path is a
\* directory, or on an injected fault
CanCreate(ds, path) == Parent(path) \in ds /\ path \notin ds

(***************************************************************************)
(* writeFile, writeFileAndCloseReader                                      *)
(***************************************************************************)
\* writeFile(path, r): r yields data; the file is stream <<"sf", i>>
writeFile(fs, ds, path, data, i, plan) ==
    IF At(plan, "create", i) \/ ~CanCreate(ds, path)
    THEN [files |-> fs, err |-> Err("create", "sf", i),
          log |-> Log({}, {}, <<Err("create", "sf", i)>>, <<>>)]
    ELSE LET copyErr == IF At(plan, "copy", i) THEN Err("copy", "sf", i) ELSE NoErr
             closeErr == IF Fails(plan, H("sf", i)) THEN CloseErr(H("sf", i)) ELSE NoErr
         IN  [files |-> Put(fs, path, IF copyErr = NoErr THEN data ELSE Trunc(data)),
              err |-> FirstErr(<<copyErr, closeErr>>),
              log |-> Log({H("sf", i)}, {H("sf", i)},
                          IF copyErr = NoErr THEN <<>> ELSE <<copyErr>>,
                          IF closeErr = NoErr THEN <<>> ELSE <<closeErr>>)]

\* writeFileAndCloseReader(path, r): r is stream <<"r", i>>, opened by the caller
writeFileAndCloseReader(fs, ds, path, data, i, plan) ==
    LET w == writeFile(fs, ds, path, data, i, plan)
        closeErr == IF Fails(plan, H("r", i)) THEN CloseErr(H("r", i)) ELSE NoErr
    IN  [files |-> w.files,
         err |-> FirstErr(<<w.err, closeErr>>),
         log |-> Log(w.log.opened \cup {H("r", i)},
                     w.log.closed \cup {H("r", i)},
                     w.log.nonClose,
                     w.log.closeErrs \o (IF closeErr = NoErr THEN <<>> ELSE <<closeErr>>))]

(***************************************************************************)
(* prepareEntriesToSign                                                    *)
(***************************************************************************)
\* one iteration of "for _, f := range zr.File"
PrepareZipEntry(ar, sr, ds, st, i, plan) ==
    LET info == entrySignInfo(ar, sr[i].name) IN
    IF info = <<>> THEN st
    ELSE IF At(plan, "openEntry", i)
    THEN [st EXCEPT !.err = Wrap(Err("open", "r", i))]
    ELSE LET w == writeFileAndCloseReader(st.files, ds, info[1].fullPath,
                                          sr[i].data, i, plan)
         IN  [files |-> w.files,
              results |-> IF w.err = NoErr THEN Append(st.results, info[1])
                          ELSE st.results,
              err |-> IF w.err = NoErr THEN NoErr ELSE Wrap(w.err),
              wf |-> [called |-> TRUE, log |-> w.log, err |-> w.err]]

\* one call of the callback handed to eachTarGzEntry
PrepareTarEntry(ar, sr, ds, st, i, plan) ==
    IF At(plan, "next", i)
    THEN [st EXCEPT !.err = Wrap(Err("next", "tr", i))]
    ELSE LET info == entrySignInfo(ar, sr[i].name) IN
         IF info = <<>> THEN st
         ELSE LET w == writeFile(st.files, ds,
                                 Join(info[1].fullPath, sr[i].name),
                                 sr[i].data, i, plan)
              IN  [files |-> w.files,
                   results |-> IF w.err = NoErr THEN Append(st.results, info[1])
                               ELSE st.results,
                   err |-> IF w.err = NoErr THEN NoErr ELSE Wrap(w.err),
                   wf |-> [called |-> TRUE, log |-> w.log, err |-> w.err]]

\* the walk stops at the first error
RECURSIVE PrepareWalk(_, _, _, _, _, _)
PrepareWalk(ar, sr, ds, st, i, plan) ==
    IF i > Len(sr) \/ st.err # NoErr THEN st
    ELSE PrepareWalk(ar, sr, ds,
                     IF ar.archiveType = zipArchive
                     THEN PrepareZipEntry(ar, sr, ds, st, i, plan)
                     ELSE PrepareTarEntry(ar, sr, ds, st, i, plan),
                     i + 1, plan)

prepareEntriesToSign(ar, sr, ds, fs, plan) ==
    LET st0 == [files |-> fs, results |-> <<>>, err |-> NoErr, wf |-> IdleWf]
        ds1 == ds \cup Ancestors(entryExtractDir(ar))
        done(st) == [dirs |-> ds1, files |-> st.files,
                     results |-> IF st.err = NoErr THEN st.results ELSE <<>>,
                     err |-> st.err, wf |-> st.wf]
    IN
    IF At(plan, "mkdir", 0)
    THEN [dirs |-> ds, files |-> fs, results |-> <<>>,
          err |-> Err("mkdir", "", 0), wf |-> IdleWf]
    ELSE IF ar.archiveType = zipArchive
    THEN IF At(plan, "openArchive", 0)
         THEN done([st0 EXCEPT !.err = Wrap(Err("open", "zr", 0))])
         ELSE done(PrepareWalk(ar, sr, ds1, st0, 1, plan))
    ELSE IF ar.macOS
    THEN IF At(plan, "openArchive", 0)
         THEN done([st0 EXCEPT !.err = Wrap(Err("open", "cl", 0))])
         ELSE IF At(plan, "gzip", 0)
         THEN done([st0 EXCEPT !.err = Wrap(Err("gzip", "gz", 0))])
         ELSE done(PrepareWalk(ar, sr, ds1, st0, 1, plan))
    ELSE done(st0)

(***************************************************************************)
(* writeSignedArchive, repackSignedEntries                                 *)
(***************************************************************************)
destinationDir == <<"o">>          \* the value of flag -o

\* the bytes behind the reader r the callback copies from: the staged file
\* when the entry selector names one, the entry of the original otherwise
\* mutant: the original entry is copied even when a signed file is staged
EntryBytes_NoSubstitute(ar, sr, fs, i) == sr[i].data

EntryBytes(ar, sr, fs, i) ==
    LET info == entrySignInfo(ar, sr[i].name) IN
    IF info # <<>> THEN fs[info[1].fullPath] ELSE sr[i].data

\* the callback handed to eachZipEntry; w is the state of the zip writer.
\* "defer r.Close()" closes r when the callback returns; its error is dropped.
RepackZipEntry(ar, sr, fs, w, i, plan) ==
    IF At(plan, "createHeader", i)
    THEN [w EXCEPT !.err = Err("createHeader", "zw", i),
                   !.log.nonClose = Append(@, Err("createHeader", "zw", i))]
    ELSE LET info == entrySignInfo(ar, sr[i].name)
             hdr == [name |-> sr[i].name, meta |-> sr[i].meta]
             canOpen == /\ ~At(plan, "openEntry", i)
                        /\ info # <<>> => info[1].fullPath \in DOMAIN fs
             data == EntryBytes(ar, sr, fs, i)
         IN
         IF ~canOpen
         THEN [w EXCEPT !.entries = Append(@, [hdr |-> hdr, data |-> Empty]),
                        !.err = Err("open", "r", i),
                        !.log.nonClose = Append(@, Err("open", "r", i))]
         ELSE LET copyErr == IF At(plan, "copy", i) THEN Err("copy", "r", i)
                             ELSE NoErr
              IN  [entries |-> Append(w.entries,
                                      [hdr |-> hdr,
                                       data |-> IF copyErr = NoErr THEN data
                                                ELSE Trunc(data)]),
                   err |-> copyErr,
                   log |-> Log(w.log.opened \cup {H("r", i)},
                               w.log.closed \cup {H("r", i)},
                               IF copyErr = NoErr THEN w.log.nonClose
                               ELSE Append(w.log.nonClose, copyErr),
                               w.log.closeErrs
                                 \o (IF Fails(plan, H("r", i))
                                     THEN <<CloseErr(H("r", i))>> ELSE <<>>))]

\* eachZipEntry: stops at the first error
RECURSIVE eachZipEntry(_, _, _, _, _, _)
eachZipEntry(ar, sr, fs, w, i, plan) ==
    IF i > Len(sr) \/ w.err # NoErr THEN w
    ELSE eachZipEntry(ar, sr, fs, RepackZipEntry(ar, sr, fs, w, i, plan), i + 1, plan)

\* eachTarGzEntry with the callback of the tar.gz branch of writeSignedArchive,
\* whose body is empty: nothing is written for any entry
RECURSIVE eachTarGzEntry(_, _, _, _)
eachTarGzEntry(sr, w, i, plan) ==
    IF i > Len(sr) \/ w.err # NoErr THEN w
    ELSE eachTarGzEntry(sr,
                        IF At(plan, "next", i)
                        THEN [w EXCEPT !.err = Err("next", "tr", i),
                                       !.log.nonClose = Append(@, Err("next", "tr", i))]
                        ELSE w,
                        i + 1, plan)

\* a Close whose error is reported when no error was recorded before it
\* mutant: the Close error overwrites an error recorded before it
CloseReported_LastWins(w, hd, plan) ==
    LET e == IF Fails(plan, hd) THEN CloseErr(hd) ELSE NoErr IN
    [w EXCEPT !.err = IF e = NoErr THEN w.err ELSE e,
              !.log.closed = @ \cup {hd},
              !.log.closeErrs = IF e = NoErr THEN @ ELSE Append(@, e)]

CloseReported(w, hd, plan) ==
    LET e == IF Fails(plan, hd) THEN CloseErr(hd) ELSE NoErr IN
    [w EXCEPT !.err = FirstErr(<<w.err, e>>),
              !.log.closed = @ \cup {hd},
              !.log.closeErrs = IF e = NoErr THEN @ ELSE Append(@, e)]

\* a deferred Close: its error is dropped
CloseDeferred(w, hd, plan) ==
    [w EXCEPT !.log.closed = @ \cup {hd},
              !.log.closeErrs = IF Fails(plan, hd) THEN Append(@, CloseErr(hd)) ELSE @]

\* writeSignedArchive(w): returns the entries written, whether the container
\* was finished (its writers closed without error), the error and the log
writeSignedArchive(ar, sr, fs, plan) ==
    LET w0 == [entries |-> <<>>, err |-> NoErr, log |-> IdleLog]
        out(w, sealed) == [entries |-> w.entries, err |-> w.err, log |-> w.log,
                           sealed |-> sealed]
    IN
    IF ar.archiveType = zipArchive
    THEN IF At(plan, "openArchive", 0)
         THEN out([w0 EXCEPT !.err = Err("open", "zr", 0),
                             !.log.nonClose = <<Err("open", "zr", 0)>>], FALSE)
         ELSE LET w1 == [w0 EXCEPT !.log.opened = {H("zr", 0), H("zw", 0)}]
                  w2 == eachZipEntry(ar, sr, fs, w1, 1, plan)
                  w3 == CloseReported(w2, H("zw", 0), plan)
                  w4 == CloseDeferred(w3, H("zr", 0), plan)
              IN  out(w4, ~Fails(plan, H("zw", 0)))
    ELSE IF ar.macOS
    THEN IF At(plan, "openArchive", 0)
         THEN out([w0 EXCEPT !.err = Err("open", "cl", 0),
                             !.log.nonClose = <<Err("open", "cl", 0)>>], FALSE)
         ELSE IF At(plan, "gzip", 0)
         THEN \* openTarGz closes the file itself and drops the Close error
              out(CloseDeferred(
                    [w0 EXCEPT !.err = Err("gzip", "gz", 0),
                               !.log.opened = {H("cl", 0)},
                               !.log.nonClose = <<Err("gzip", "gz", 0)>>],
                    H("cl", 0), plan),
                  FALSE)
         ELSE LET w1 == [w0 EXCEPT !.log.opened =
                             {H("cl", 0), H("gz", 0), H("gzw", 0), H("tw", 0)}]
                  w2 == eachTarGzEntry(sr, w1, 1, plan)
                  w3 == CloseReported(w2, H("tw", 0), plan)
                  w4 == CloseReported(w3, H("gzw", 0), plan)
                  w5 == CloseDeferred(w4, H("cl", 0), plan)
              IN  out(w5, ~Fails(plan, H("tw", 0)) /\ ~Fails(plan, H("gzw", 0)))
    ELSE out(w0, FALSE)

\* the method targetPath(); repackSignedEntries does not call it
targetPath(ar) == Join(destinationDir, archiveName(ar))

\* the local targetPath of repackSignedEntries
repackTargetPath(ar) == Join(destinationDir, ar.path \o SufWithSignedContent)

repackSignedEntries(ar, sr, ds, fs, os, plan) ==
    IF ar.archiveType = zipArchive \/ ar.macOS
    THEN IF At(plan, "createTarget", 0) \/ ~CanCreate(ds, repackTargetPath(ar))
         THEN [outs |-> os, err |-> Err("create", "f", 0),
               log |-> Log({}, {}, <<Err("create", "f", 0)>>, <<>>)]
         ELSE LET w == writeSignedArchive(ar, sr, fs, plan)
                  w1 == CloseReported([w EXCEPT !.log.opened = @ \cup {H("f", 0)}],
                                      H("f", 0), plan)
              IN  [outs |-> Put(os, repackTargetPath(ar),
                                [entries |-> w.entries,
                                 sealed |-> w.sealed]),
                   err |-> w1.err,
                   log |-> w1.log]
    ELSE [outs |-> os, err |-> NoErr, log |-> IdleLog]

(***************************************************************************)
(* The stage stubs.  Both bodies are empty in the source: nothing is built *)
(* and nothing is returned, modelled as the zero values (nil, nil).        *)
(***************************************************************************)
prepareNotarization(ar) == [results |-> <<>>, err |-> NoErr]

prepareSignatures(ar) == [results |-> <<>>, err |-> NoErr]

(***************************************************************************)
(* The archives the stage methods are called on, and their contents.       *)
(***************************************************************************)
P_zip == <<"g", "o", "1", ".", "z", "i", "p">>
P_dir_zip == <<"t", "/", "g", "o", "1", ".", "z", "i", "p">>
P_linux == <<"g", "o", "1", ".", "l", "i", "n", "u", "x", ".", "t", "a", "r", ".", "g", "z">>
P_darwin == <<"g", "o", "1", ".", "d", "a", "r", "w", "i", "n", ".", "t", "a", "r", ".", "g", "z">>

N_a_exe == <<"a", ".", "e", "x", "e">>
N_b_txt == <<"b", ".", "t", "x", "t">>
N_go_bin_go == <<"g", "o", "/", "b", "i", "n", "/", "g", "o">>
N_README == <<"R", "E", "A", "D", "M", "E">>
N_bin_c_exe == <<"b", "i", "n", "/", "c", ".", "e", "x", "e">>

Archives ==
    {[path |-> P_zip, archiveType |-> zipArchive, macOS |-> FALSE],
     [path |-> P_dir_zip, archiveType |-> zipArchive, macOS |-> FALSE],
     [path |-> P_linux, archiveType |-> tarGzArchive, macOS |-> FALSE],
     [path |-> P_darwin, archiveType |-> tarGzArchive, macOS |-> TRUE]}

EntryNames == {N_a_exe, N_b_txt, N_go_bin_go, N_README, N_bin_c_exe}

\* entry i carries its own header fields and bytes
MkSrc(names) ==
    [i \in 1..Len(names) |-> [name |-> names[i], meta |-> i, data |-> Orig(i)]]

Srcs == {MkSrc(ns) : ns \in UNION {[1..n -> EntryNames] : n \in 0..MaxEntries}}

(***************************************************************************)
(* Actions on one archive.  The caller drives the passes in the order of   *)
(* the command's description: entries (extract, sign, repack), notarize,   *)
(* signatures.  repackSignedEntries takes no list of requests, so it can   *)
(* also be called on an archive nothing was extracted from.                *)
(***************************************************************************)
\* the operations and streams of a call depend on the kind of the archive
PreparePlans ==
    IF a.archiveType = zipArchive
    THEN Plans({"mkdir", "openArchive"}, {"openEntry", "create", "copy"}, Len(src),
               {H("zr", 0)} \cup {H("sf", i) : i \in 1..Len(src)}
                            \cup {H("r", i) : i \in 1..Len(src)})
    ELSE IF a.macOS
    THEN Plans({"mkdir", "openArchive", "gzip"}, {"next", "create", "copy"}, Len(src),
               {H("cl", 0)} \cup {H("sf", i) : i \in 1..Len(src)})
    ELSE Plans({"mkdir"}, {}, 0, {})

RepackPlans ==
    IF a.archiveType = zipArchive
    THEN Plans({"createTarget", "openArchive"}, {"createHeader", "openEntry", "copy"},
               Len(src),
               {H("zr", 0), H("zw", 0), H("f", 0)}
                 \cup {H("r", i) : i \in 1..Len(src)})
    ELSE IF a.macOS
    THEN Plans({"createTarget", "openArchive", "gzip"}, {"next"}, Len(src),
               {H("cl", 0), H("tw", 0), H("gzw", 0), H("f", 0)})
    ELSE Plans({}, {}, 0, {})

PrepareEntriesToSign ==
    /\ pc = "start"
    /\ \E plan \in PreparePlans :
         LET o == prepareEntriesToSign(a, src, dirs, files, plan) IN
         /\ dirs' = o.dirs
         /\ files' = o.files
         /\ results' = o.results
         /\ ret' = o.err
         /\ wf' = o.wf
         /\ injected' = (plan # NoFaults)
         /\ pc' = IF o.err = NoErr THEN "extracted" ELSE "failed"
    /\ lastOp' = "prepare"
    /\ io' = IdleLog
    /\ UNCHANGED <<a, src, outs>>
    /\ UNCHANGED classifyVars
    /\ UNCHANGED runVars

\* The signing service: every requested path that holds a file gets signed
\* bytes in place; or the whole batch fails.
ExternalSign ==
    /\ pc = "extracted"
    /\ \/ /\ files' = [q \in DOMAIN files |->
                         IF \E k \in 1..Len(results) : results[k].fullPath = q
                         THEN Signed(files[q]) ELSE files[q]]
          /\ pc' = "signed"
          /\ ret' = NoErr
       \/ /\ files' = files
          /\ pc' = "failed"
          /\ ret' = Err("sign", "", 0)
    /\ lastOp' = "sign"
    /\ injected' = FALSE
    /\ UNCHANGED <<a, src, dirs, outs, results, io, wf>>
    /\ UNCHANGED classifyVars
    /\ UNCHANGED runVars

RepackSignedEntries ==
    /\ pc \in {"start", "signed"}
    /\ \E plan \in RepackPlans :
         LET o == repackSignedEntries(a, src, dirs, files, outs, plan) IN
         /\ outs' = o.outs
         /\ ret' = o.err
         /\ io' = o.log
         /\ injected' = (plan # NoFaults)
         /\ pc' = IF o.err = NoErr THEN "repacked" ELSE "failed"
    /\ lastOp' = "repack"
    /\ UNCHANGED <<a, src, dirs, files, results, wf>>
    /\ UNCHANGED classifyVars
    /\ UNCHANGED runVars

PrepareNotarization ==
    /\ pc = "repacked"
    /\ results' = prepareNotarization(a).results
    /\ ret' = prepareNotarization(a).err
    /\ pc' = "notarized"
    /\ lastOp' = "notarization"
    /\ injected' = FALSE
    /\ UNCHANGED <<a, src, dirs, files, outs, io, wf>>
    /\ UNCHANGED classifyVars
    /\ UNCHANGED runVars

PrepareSignatures ==
    /\ pc = "notarized"
    /\ results' = prepareSignatures(a).results
    /\ ret' = prepareSignatures(a).err
    /\ pc' = "done"
    /\ lastOp' = "signatures"
    /\ injected' = FALSE
    /\ UNCHANGED <<a, src, dirs, files, outs, io, wf>>
    /\ UNCHANGED classifyVars
    /\ UNCHANGED runVars

(***************************************************************************)
(* Specifications.                                                         *)
(***************************************************************************)
IdleClassify == created = NotCalled

IdleArchive ==
    /\ a = NoArchive
    /\ src = <<>>
    /\ dirs = {<<>>}
    /\ files = <<>>
    /\ outs = <<>>
    /\ results = <<>>
    /\ ret = NoErr
    /\ lastOp = "none"
    /\ io = IdleLog
    /\ wf = IdleWf
    /\ injected = FALSE
    /\ pc = "idle"

IdleRun ==
    /\ entries = <<>>
    /\ globOk = TRUE
    /\ runPc = "idle"
    /\ idx = 0
    /\ zipFiles = <<>>
    /\ tarGzFiles = <<>>
    /\ macOSFiles = <<>>
    /\ history = <<>>
    /\ leaked = 0
    /\ runRet = NoErr

Init ==
    /\ a \in Archives
    /\ src \in Srcs
    /\ dirs = {<<>>, destinationDir} \cup Ancestors(Parent(a.path))
    /\ files = <<>>
    /\ outs = <<>>
    /\ results = <<>>
    /\ ret = NoErr
    /\ lastOp = "none"
    /\ io = IdleLog
    /\ wf = IdleWf
    /\ injected = FALSE
    /\ pc = "start"
    /\ IdleClassify
    /\ IdleRun

Next ==
    \/ PrepareEntriesToSign
    \/ ExternalSign
    \/ RepackSignedEntries
    \/ PrepareNotarization
    \/ PrepareSignatures

Spec == Init /\ [][Next]_vars

(***************************************************************************)
(* newArchive applied to a path.                                           *)
(***************************************************************************)
NewArchive ==
    /\ \E p \in Paths :
         created' = [called |-> TRUE, path |-> p,
                     ok |-> newArchive(p).ok, archive |-> newArchive(p).archive]
    /\ UNCHANGED archiveVars
    /\ UNCHANGED runVars

InitClassify == IdleClassify /\ IdleArchive /\ IdleRun

NextClassify == NewArchive

SpecClassify == InitClassify /\ [][NextClassify]_vars

(***************************************************************************)
(* run()                                                                   *)
(***************************************************************************)
filesGlob == <<"t", "/", "*">>      \* the value of flag -files

DirNames == {P_zip, P_linux, P_darwin, N_README}

\* run() ranges over "entries"; the model takes them to be the directory
\* entries the glob stands for.
DirListings == UNION {[1..n -> DirNames] : n \in 0..MaxDirEntries}

RunGlob ==
    /\ runPc = "glob"
    /\ IF globOk
       THEN runPc' = "classify" /\ idx' = 1 /\ runRet' = runRet
       ELSE runPc' = "done" /\ idx' = idx /\ runRet' = Err("glob", "", 0)
    /\ UNCHANGED <<entries, globOk, zipFiles, tarGzFiles, macOSFiles, history, leaked>>
    /\ UNCHANGED classifyVars
    /\ UNCHANGED archiveVars

\* one iteration of "for _, entry := range entries"
RunClassifyEntry ==
    /\ runPc = "classify"
    /\ idx <= Len(entries)
    /\ LET nm == entries[idx]
           path == Join(filesGlob, nm)
           isZip == matchOrPanic(PatGoZip, nm)
           isTarGz == matchOrPanic(PatGoTarGz, nm)
           isMacOS == matchOrPanic(PatGoDarwinTarGz, nm)
       IN
       /\ zipFiles' = IF isZip THEN Append(zipFiles, path) ELSE zipFiles
       /\ tarGzFiles' = IF isTarGz THEN Append(tarGzFiles, path) ELSE tarGzFiles
       /\ macOSFiles' = IF isMacOS THEN Append(macOSFiles, path) ELSE macOSFiles
       /\ history' = IF isZip \/ isTarGz \/ isMacOS
                     THEN Put(history, path, <<"discovered">>)
                     ELSE history
    /\ idx' = idx + 1
    /\ UNCHANGED <<entries, globOk, runPc, leaked, runRet>>
    /\ UNCHANGED classifyVars
    /\ UNCHANGED archiveVars

RunClassifyEnd ==
    /\ runPc = "classify"
    /\ idx > Len(entries)
    /\ runPc' = "zips"
    /\ idx' = 1
    /\ UNCHANGED <<entries, globOk, zipFiles, tarGzFiles, macOSFiles, history,
                   leaked, runRet>>
    /\ UNCHANGED classifyVars
    /\ UNCHANGED archiveVars

\* one iteration of "for _, path := range zipFiles": zip.OpenReader(path),
\* both results dropped
RunOpenZip ==
    /\ runPc = "zips"
    /\ idx <= Len(zipFiles)
    /\ \/ leaked' = leaked + 1     \* opened, never closed
       \/ leaked' = leaked         \* failed, error dropped
    /\ idx' = idx + 1
    /\ UNCHANGED <<entries, globOk, runPc, zipFiles, tarGzFiles, macOSFiles,
                   history, runRet>>
    /\ UNCHANGED classifyVars
    /\ UNCHANGED archiveVars

RunOpenZipEnd ==
    /\ runPc = "zips"
    /\ idx > Len(zipFiles)
    /\ runPc' = "macos"
    /\ idx' = 1
    /\ UNCHANGED <<entries, globOk, zipFiles, tarGzFiles, macOSFiles, history,
                   leaked, runRet>>
    /\ UNCHANGED classifyVars
    /\ UNCHANGED archiveVars

\* one iteration of "for _, path := range macOSFiles": the body is empty
RunMacOS ==
    /\ runPc = "macos"
    /\ idx <= Len(macOSFiles)
    /\ idx' = idx + 1
    /\ UNCHANGED <<entries, globOk, runPc, zipFiles, tarGzFiles, macOSFiles,
                   history, leaked, runRet>>
    /\ UNCHANGED classifyVars
    /\ UNCHANGED archiveVars

\* "return nil"
RunReturn ==
    /\ runPc = "macos"
    /\ idx > Len(macOSFiles)
    /\ runPc' = "done"
    /\ runRet' = NoErr
    /\ UNCHANGED <<entries, globOk, idx, zipFiles, tarGzFiles, macOSFiles,
                   history, leaked>>
    /\ UNCHANGED classifyVars
    /\ UNCHANGED archiveVars

InitRun ==
    /\ entries \in DirListings
    /\ globOk \in BOOLEAN
    /\ runPc = "glob"
    /\ idx = 0
    /\ zipFiles = <<>>
    /\ tarGzFiles = <<>>
    /\ macOSFiles = <<>>
    /\ history = <<>>
    /\ leaked = 0
    /\ runRet = NoErr
    /\ IdleClassify
    /\ IdleArchive

NextRun ==
    \/ RunGlob
    \/ RunClassifyEntry
    \/ RunClassifyEnd
    \/ RunOpenZip
    \/ RunOpenZipEnd
    \/ RunMacOS
    \/ RunReturn

SpecRun == InitRun /\ [][NextRun]_vars

(***************************************************************************)
(* Properties.                                                             *)
(***************************************************************************)
Names(sr) == [i \in 1..Len(sr) |-> sr[i].name]

\* s contains sub
Contains(s, sub) ==
    \E i \in 1..(Len(s) - Len(sub) + 1) : SubSeq(s, i, i + Len(sub) - 1) = sub

\* the staged path of an entry, as the specification words it
StagedPath(ar, n) == ar.path \o SufExtracted \o <<Sep>> \o n

\* <destinationDir>/<name>.withSignedContent
PublishedPath(ar) == destinationDir \o <<Sep>> \o Base(ar.path) \o SufWithSignedContent

IsExe(e) == HasSuffix(e.name, SufExe)

\* C1: newArchive classifies every path by its base filename: go*.zip is a
\* zip and not macOS, go*darwin*.tar.gz is a macOS tar.gz, go*.tar.gz without
\* darwin is a tar.gz and not macOS, and every other name is an error.
C1_ClassifiesByBaseName ==
    created.called =>
        LET b == Base(created.path)
            ar == created.archive
        IN
        /\ Match(PatGoZip, b) =>
              created.ok /\ ar.archiveType = zipArchive /\ ~ar.macOS
        /\ Match(PatGoDarwinTarGz, b) =>
              created.ok /\ ar.archiveType = tarGzArchive /\ ar.macOS
        /\ (Match(PatGoTarGz, b) /\ ~Contains(b, Darwin)) =>
              created.ok /\ ar.archiveType = tarGzArchive /\ ~ar.macOS
        /\ (~Match(PatGoZip, b) /\ ~Match(PatGoTarGz, b)) => ~created.ok

\* C2: after a successful repack of a zip archive, every entry whose name
\* ends with .exe carries the bytes of its staged file and every other entry
\* carries the bytes it has in the original, in the original order.
C2_ZipRepackSubstitutes ==
    (lastOp = "repack" /\ ret = NoErr /\ a.archiveType = zipArchive) =>
        /\ repackTargetPath(a) \in DOMAIN outs
        /\ LET o == outs[repackTargetPath(a)].entries IN
           /\ Len(o) = Len(src)
           /\ \A i \in 1..Len(src) :
                /\ o[i].hdr.name = src[i].name
                /\ IF IsExe(src[i])
                   THEN /\ StagedPath(a, src[i].name) \in DOMAIN files
                        /\ o[i].data = files[StagedPath(a, src[i].name)]
                   ELSE o[i].data = src[i].data

C2_Witness ==
    /\ lastOp = "repack"
    /\ ret = NoErr
    /\ a.archiveType = zipArchive
    /\ Names(src) = <<N_a_exe, N_b_txt>>
    /\ files[StagedPath(a, N_a_exe)] = Signed(Orig(1))
    /\ outs[repackTargetPath(a)].entries[1].data = Signed(Orig(1))
    /\ outs[repackTargetPath(a)].entries[2].data = Orig(2)

\* C3: when repackSignedEntries returns a read or write error hit after the
\* first entry was written, no file exists at
\* <destinationDir>/<name>.withSignedContent.
C3_NoPartialAtPublishedPath ==
    (/\ lastOp = "repack"
     /\ ret.kind \in {"createHeader", "open", "copy", "next"}
     /\ ret.i > 1) => PublishedPath(a) \notin DOMAIN outs

\* C4: a successful prepareEntriesToSign on a zip archive returns one request
\* per entry whose name ends with .exe, in entry order, none for any other
\* entry, each with profile Microsoft400.
C4_ZipRequestsAreTheExeEntries ==
    (lastOp = "prepare" /\ ret = NoErr /\ a.archiveType = zipArchive) =>
        LET exe == SelectSeq(src, IsExe) IN
        /\ Len(results) = Len(exe)
        /\ \A k \in 1..Len(results) :
             /\ results[k].fullPath = StagedPath(a, exe[k].name)
             /\ results[k].archivePath = a.path
             /\ results[k].authenticode = "Microsoft400"

C4_Witness ==
    /\ lastOp = "prepare"
    /\ ret = NoErr
    /\ a.archiveType = zipArchive
    /\ Names(src) = <<N_a_exe, N_b_txt>>
    /\ Len(results) = 1
    /\ results[1].fullPath = StagedPath(a, N_a_exe)
    /\ results[1].authenticode = "Microsoft400"

IsMacSignable(e) == Match(PatGoBin, e.name) \/ Match(PatPkgTool, e.name)

\* C5: on every tar.gz archive prepareEntriesToSign, absent I/O faults,
\* succeeds; on a macOS archive it returns one MacDeveloperHarden request per
\* entry matching go/bin/* or pkg/tool/*/* and none for the others; on any
\* other tar.gz it returns no request.
C5_TarGzRequests ==
    (lastOp = "prepare" /\ a.archiveType = tarGzArchive /\ ~injected) =>
        LET sel == IF a.macOS THEN SelectSeq(src, IsMacSignable) ELSE <<>> IN
        /\ ret = NoErr
        /\ Len(results) = Len(sel)
        /\ \A k \in 1..Len(results) :
             /\ results[k].fullPath = StagedPath(a, sel[k].name)
             /\ results[k].authenticode = "MacDeveloperHarden"

\* C6: repacking a zip archive for which nothing was staged succeeds, absent
\* I/O faults, and writes the entries of the input, names, headers and bytes,
\* in the same order, whatever the entry names.
C6_ZipRoundTrip ==
    (lastOp = "repack" /\ a.archiveType = zipArchive /\ files = <<>> /\ ~injected) =>
        /\ ret = NoErr
        /\ repackTargetPath(a) \in DOMAIN outs
        /\ outs[repackTargetPath(a)].entries =
             [i \in 1..Len(src) |->
                [hdr |-> [name |-> src[i].name, meta |-> src[i].meta],
                 data |-> src[i].data]]

\* C7: prepareSignatures returns exactly one request for every archive;
\* prepareNotarization returns exactly one request for a macOS tar.gz and
\* none for any other archive.
C7_OneSignatureRequest ==
    /\ lastOp = "signatures" => Len(results) = 1
    /\ lastOp = "notarization" =>
         Len(results) = IF a.archiveType = tarGzArchive /\ a.macOS THEN 1 ELSE 0

Pipeline(isMacOS) ==
    <<"discovered", "classify", "extract", "sign", "repack">>
      \o (IF isMacOS THEN <<"notarize">> ELSE <<>>)
      \o <<"signature">>

\* C8: when run() has returned without error, every archive it discovered
\* has gone through classify, extract, external signing, repack, notarize
\* (macOS only) and signature, in this order.
C8_SignedOnlyAfterAllStages ==
    (runPc = "done" /\ runRet = NoErr) =>
        \A q \in DOMAIN history :
            history[q] = Pipeline(\E k \in 1..Len(macOSFiles) : macOSFiles[k] = q)

DestStreams == {"sf", "zw", "tw", "gzw", "f"}

ErrsOf(hs, errs) == SelectSeq(errs, LAMBDA e : e.h \in hs)

\* first error wins, over the Close errors of the streams named in hs
Reported(log, hs) ==
    IF log.nonClose # <<>> THEN log.nonClose[1]
    ELSE IF ErrsOf(hs, log.closeErrs) # <<>> THEN ErrsOf(hs, log.closeErrs)[1]
    ELSE NoErr

C10_TarGzRepackKeepsEntries ==
    (lastOp = "repack" /\ ret = NoErr /\ a.archiveType = tarGzArchive /\ a.macOS) =>
        /\ repackTargetPath(a) \in DOMAIN outs
        /\ LET o == outs[repackTargetPath(a)].entries IN
           /\ Len(o) = Len(src)
           /\ \A i \in 1..Len(src) :
                /\ o[i].hdr = [name |-> src[i].name, meta |-> src[i].meta]
                /\ IF IsMacSignable(src[i])
                   THEN o[i].data = files[StagedPath(a, src[i].name)]
                   ELSE o[i].data = src[i].data

\* the entries the selector picks, as the specification words the rules
Selected(ar, sr) ==
    IF ar.archiveType = zipArchive THEN SelectSeq(sr, IsExe)
    ELSE IF ar.macOS THEN SelectSeq(sr, IsMacSignable)
    ELSE <<>>

DistinctNames(sr) ==
    \A i, j \in 1..Len(sr) : sr[i].name = sr[j].name => i = j

\* C11: prepareEntriesToSign on a zip or macOS tar.gz archive with distinct
\* entry names, absent I/O faults, is not stopped by a missing parent
\* directory of a staged path (they are created), and after it succeeded
\* every returned request records <stagingDir>/<entryName> and a file holding
\* exactly that entry's bytes exists at that path.
C11_StagedAtRecordedPath ==
    (/\ lastOp = "prepare"
     /\ a.archiveType = zipArchive \/ a.macOS
     /\ DistinctNames(src)
     /\ ~injected) =>
        LET sel == Selected(a, src) IN
        /\ ret.kind # "create"
        /\ ret = NoErr =>
             /\ Len(results) = Len(sel)
             /\ \A k \in 1..Len(results) :
                  /\ results[k].fullPath = StagedPath(a, sel[k].name)
                  /\ results[k].fullPath \in DOMAIN files
                  /\ files[results[k].fullPath] = sel[k].data

\* C12: in the requests one successful prepareEntriesToSign returns, no two
\* requests share a staged file path, also when the archive holds two
\* entries with the same name.
C12_StagedPathsUnique ==
    (lastOp = "prepare" /\ ret = NoErr) =>
        \A j, k \in 1..Len(results) :
            results[j].fullPath = results[k].fullPath => j = k

====
